---- MODULE Spec2Model ----
(***************************************************************************)
(* Ticket and transaction workflows of the complaint/transaction backend:  *)
(* the tickets, transactions and status_updates tables, the handlers that  *)
(* write them, and the notifications and live events each handler sends.   *)
(*                                                                         *)
(* Every handler is one action.  Its inputs (request fields, the random    *)
(* suffix of a ticket number, the status the external source returns, the  *)
(* database statement that fails, if any) are drawn with \E.  The variable *)
(* lastOp records the request and the response of the handler that ran     *)
(* last, outbox the e-mails it sent and emitted the live events it         *)
(* published.                                                              *)
(*                                                                         *)
(* SERIAL ids are modelled without gaps (the next id is the table length   *)
(* plus one); no handler deletes a ticket or a transaction row.  WhatsApp  *)
(* messages are sent at the same places as the e-mails when the row's      *)
(* metadata holds a phone number; only the e-mails are modelled.           *)
(***************************************************************************)
EXTENDS Integers, Sequences, FiniteSets, TLC

\* ---- bounds of the model ----
MaxTickets == 2
MaxTxns == 2
MaxAudit == 2
MaxRand == 0
MaxBatch == 2
MaxRuns == 2
MaxJobAudit == 4
MaxPad == 1
MaxLogs == 2

\* ---- values ----
NULL == "NULL"

\* CHECK constraint of tickets.status
TicketStatuses == {"open", "in_progress", "resolved", "closed"}

\* CHECK constraint of transactions.status
TransactionStatuses ==
    {"initiated", "pending", "processing", "success", "failed", "refunded", "cancelled"}

\* the statuses after which completed_at is written
TerminalStatuses == {"success", "failed", "refunded", "cancelled"}

\* the statuses getPendingTransactions selects
PendingStatuses == {"initiated", "pending", "processing"}

\* minutes a pending transaction must be untouched before the job syncs it
StaleMinutes == 5

\* minutes a ticket stays resolved before the auto-close job closes it
AutoCloseMinutes == 1440

\* the instants (minutes) the clock takes in the model
Instants == {0, 1447}

\* status values a request or the external source supplies; "bogus"
\* violates the CHECK constraints
TicketStatusInputs == {"open", "resolved", "bogus"}
TxnStatusInputs == {"pending", "success", "refunded"}

\* external transaction ids
TxnIds == {"T" \o ToString(i) : i \in 1..MaxTxns}

VARIABLES tickets, transactions, status_updates, now, lastOp, outbox, emitted, runs,
          webhook_logs

vars == <<tickets, transactions, status_updates, now, lastOp, outbox, emitted, runs,
          webhook_logs>>

\* the runs of scheduler jobs that may be in progress at once
RunIds == 1..MaxRuns

\* a run slot in which no job is in progress
IdleRun == [job |-> "idle", pc |-> "idle", ids |-> <<>>, k |-> 0, read |-> NULL,
            fetched |-> NULL, result |-> <<>>]

\* ---- helpers ----

\* decimal digits of a natural number, most significant first
RECURSIVE Digits(_)
Digits(n) == IF n < 10 THEN <<n>> ELSE Digits(n \div 10) \o <<n % 10>>

\* `TK${Date.now()}${Math.floor(Math.random() * 1000)}`
TicketNumber(t, r) == <<"TK">> \o Digits(t) \o Digits(r)

\* the old and the new status written to each other's column
AuditRow_swapped(type, id, old, new) ==
    [entity_type |-> type, entity_id |-> id, old_status |-> new, new_status |-> old]

\* a row of status_updates (update_reason and updated_by are free text that no
\* handler reads back)
AuditRow(type, id, old, new) ==
    [entity_type |-> type, entity_id |-> id, old_status |-> old, new_status |-> new]

\* the rows of status_updates of one entity, in insertion order
AuditOf(type, id) ==
    SelectSeq(status_updates, LAMBDA r : r.entity_type = type /\ r.entity_id = id)

\* an e-mail handed to EmailService.sendEmail
Email(type, ref) == [type |-> type, ref |-> ref]

\* the statements of a notification that may fail: the delivery of the
\* message and the INSERT into the notification log
NotifyFaults == {"send", "notifylog"}

\* a sender that lets a failed delivery or log insert escape to its caller
NotificationThrows_propagates(fault) == fault \in NotifyFaults

\* EmailService.sendEmail / logEmail and WhatsAppService.sendMessage /
\* logMessage catch every error of the delivery and of the log insert
NotificationThrows(fault) == FALSE

\* what became of the notifications a handler attempted
Delivery(attempted, fault) ==
    IF ~attempted THEN "none" ELSE IF fault \in NotifyFaults THEN "failed" ELSE "sent"

\* ---- tickets table ----

\* a tickets table without the UNIQUE constraint
TicketNumberTaken_none(tks, number) == FALSE

\* UNIQUE (ticket_number)
TicketNumberTaken(tks, number) ==
    \E i \in 1..Len(tks) : tks[i].ticket_number = number

\* INSERT INTO tickets: status takes its DEFAULT 'open', created_at and
\* updated_at their DEFAULT CURRENT_TIMESTAMP, resolved_at stays NULL
NewTicket(id, number, t) ==
    [id |-> id, ticket_number |-> number, status |-> "open",
     created_at |-> t, updated_at |-> t, resolved_at |-> <<>>]

Init ==
    /\ tickets = <<>>
    /\ transactions = <<>>
    /\ status_updates = <<>>
    /\ now = 0
    /\ lastOp = [op |-> "init"]
    /\ outbox = <<>>
    /\ emitted = <<>>
    /\ runs = [r \in RunIds |-> IdleRun]
    /\ webhook_logs = <<>>

\* the clock moves on to a later instant of S
Advance(S) ==
    /\ \E t \in S : t > now /\ now' = t
    /\ UNCHANGED <<tickets, transactions, status_updates, lastOp, outbox, emitted, runs, webhook_logs>>

\* time passes between two handlers
Tick == Advance(Instants)

\* ---- Ticket workflow ----

\* TicketController.createTicket
createTicket(valid, r, fault) ==
    LET number == TicketNumber(now, r)
        id == Len(tickets) + 1
        stored == valid /\ fault # "insert" /\ ~TicketNumberTaken(tickets, number)
        logged == stored /\ fault # "audit"
    IN  /\ stored => Len(tickets) < MaxTickets
        /\ logged => Len(status_updates) < MaxAudit
        /\ tickets' = IF stored THEN Append(tickets, NewTicket(id, number, now))
                      ELSE tickets
        /\ status_updates' =
              IF logged
              THEN Append(status_updates,
                          AuditRow("ticket", id, NULL, "open"))
              ELSE status_updates
        /\ outbox' = IF logged THEN <<Email("acknowledgment", id)>> ELSE <<>>
        /\ emitted' = IF logged /\ ~NotificationThrows(fault)
                      THEN <<[event |-> "ticket_created", id |-> id]>> ELSE <<>>
        /\ lastOp' = [op |-> "createTicket",
                      code |-> IF ~valid THEN 400
                               ELSE IF logged /\ ~NotificationThrows(fault) THEN 201 ELSE 500,
                      id |-> IF stored THEN id ELSE 0,
                      delivery |-> Delivery(logged, fault)]
        /\ UNCHANGED <<transactions, now, runs, webhook_logs>>

\* resolved_at written by every Update to resolved
UpdatedTicketRow_everyResolve(row, readStatus, status, t) ==
    [row EXCEPT !.status = IF status # NULL THEN status ELSE @,
                !.updated_at = t,
                !.resolved_at = IF status = "resolved" THEN <<t>> ELSE @]

\* the SET list of updateTicket's UPDATE applied to one row: status when the
\* request supplies one, updated_at always, resolved_at when the request
\* resolves a ticket that was not resolved when the handler read it
UpdatedTicketRow(row, readStatus, status, t) ==
    [row EXCEPT !.status = IF status # NULL THEN status ELSE @,
                !.updated_at = t,
                !.resolved_at = IF status = "resolved" /\ readStatus # "resolved"
                                THEN <<t>> ELSE @]

\* an audit row for every Update that supplies a status
StatusChanged_supplied(readStatus, status) == status # NULL

\* if (updateData.status && updateData.status !== currentTicket.status)
StatusChanged(readStatus, status) == status # NULL /\ status # readStatus

\* TicketController.sendStatusNotifications: the closure e-mail; the function
\* catches whatever its senders throw
StatusNotifications(id, status, resolution) ==
    IF status = "resolved" /\ resolution THEN <<Email("closure", id)>> ELSE <<>>

\* TicketController.updateTicket
updateTicket(id, status, resolution, fault) ==
    LET found == fault # "select" /\ id \in 1..Len(tickets)
        cur == tickets[id]
        written == /\ found
                   /\ fault # "update"
                   /\ status \in TicketStatuses \cup {NULL}
        changed == written /\ StatusChanged(cur.status, status)
        logged == changed /\ fault # "audit"
    IN  /\ logged => Len(status_updates) < MaxAudit
        /\ tickets' = IF written
                      THEN [tickets EXCEPT ![id] = UpdatedTicketRow(cur, cur.status, status, now)]
                      ELSE tickets
        /\ status_updates' =
              IF logged
              THEN Append(status_updates,
                          AuditRow("ticket", id, cur.status, status))
              ELSE status_updates
        /\ outbox' = IF logged THEN StatusNotifications(id, status, resolution) ELSE <<>>
        /\ emitted' = IF written /\ (logged \/ ~changed)
                      THEN <<[event |-> "ticket_updated", id |-> id]>> ELSE <<>>
        /\ lastOp' = [op |-> "updateTicket", id |-> id,
                      code |-> IF fault = "select" THEN 500
                               ELSE IF ~found THEN 404
                               ELSE IF written /\ (logged \/ ~changed) THEN 200
                               ELSE 500,
                      delivery |-> Delivery(logged, fault)]
        /\ UNCHANGED <<transactions, now, runs, webhook_logs>>

\* TicketController.deleteTicket (Close)
deleteTicket(id, fault) ==
    LET found == fault = "none" /\ id \in 1..Len(tickets)
    IN  /\ tickets' = IF found
                      THEN [tickets EXCEPT ![id].status = "closed", ![id].updated_at = now]
                      ELSE tickets
        /\ lastOp' = [op |-> "deleteTicket", id |-> id,
                      code |-> IF fault # "none" THEN 500
                               ELSE IF found THEN 200 ELSE 404]
        /\ outbox' = <<>>
        /\ emitted' = <<>>
        /\ UNCHANGED <<transactions, status_updates, now, runs, webhook_logs>>

\* TicketController.processIncomingEmail: the table after the call, the id of
\* the stored ticket (0 when the INSERT throws and the call rethrows), the
\* e-mails sent and the events published
IncomingEmail(tks, r, fault, t) ==
    LET number == TicketNumber(t, r)
        id == Len(tks) + 1
        stored == fault # "insert" /\ ~TicketNumberTaken(tks, number)
    IN  [tickets |-> IF stored THEN Append(tks, NewTicket(id, number, t)) ELSE tks,
         id |-> IF stored THEN id ELSE 0,
         outbox |-> IF stored THEN <<Email("acknowledgment", id)>> ELSE <<>>,
         emitted |-> IF stored THEN <<[event |-> "ticket_created", id |-> id]>> ELSE <<>>]

\* TicketController.processIncomingEmail called on its own
processIncomingEmail(r, fault) ==
    LET after == IncomingEmail(tickets, r, fault, now)
    IN  /\ Len(after.tickets) <= MaxTickets
        /\ tickets' = after.tickets
        /\ outbox' = after.outbox
        /\ emitted' = after.emitted
        /\ lastOp' = [op |-> "processIncomingEmail",
                      code |-> IF after.id # 0 THEN 200 ELSE 500,
                      id |-> after.id]
        /\ UNCHANGED <<transactions, status_updates, now, runs, webhook_logs>>

\* a job that closes every resolved ticket, whatever its age
AutoCloseEligible_anyResolved(row, t) == row.status = "resolved"

\* WHERE status = 'resolved' AND resolved_at < NOW() - INTERVAL '24 hours'
AutoCloseEligible(row, t) ==
    /\ row.status = "resolved"
    /\ row.resolved_at # <<>>
    /\ row.resolved_at[1] < t - AutoCloseMinutes

\* the orders in which a SELECT without ORDER BY may return a set of rows
Orders(S) ==
    {q \in [1..Cardinality(S) -> S] : \A i, j \in 1..Cardinality(S) : i # j => q[i] # q[j]}

\* the loop of autoCloseResolvedTickets over the selected ids: statement
\* number failAt throws (0: none does) and ends the job
RECURSIVE AutoCloseLoop(_, _, _, _, _)
AutoCloseLoop(ids, k, failAt, tks, audit) ==
    IF k > Len(ids) \/ failAt = 2 * k - 1
    THEN [tickets |-> tks, status_updates |-> audit]
    ELSE LET id == ids[k]
             closed == [tks EXCEPT ![id].status = "closed", ![id].updated_at = now]
         IN  IF failAt = 2 * k
             THEN [tickets |-> closed, status_updates |-> audit]
             ELSE AutoCloseLoop(ids, k + 1, failAt, closed,
                                Append(audit, AuditRow("ticket", id, "resolved", "closed")))

\* CronService.autoCloseResolvedTickets
autoCloseResolvedTickets(ids, failAt) ==
    LET after == AutoCloseLoop(ids, 1, failAt, tickets, status_updates)
    IN  /\ Len(after.status_updates) <= MaxAudit
        /\ tickets' = after.tickets
        /\ status_updates' = after.status_updates
        /\ lastOp' = [op |-> "autoCloseResolvedTickets", ids |-> ids,
                      completed |-> failAt = 0 \/ failAt > 2 * Len(ids)]
        /\ outbox' = <<>>
        /\ emitted' = <<>>
        /\ UNCHANGED <<transactions, now, runs, webhook_logs>>

CreateFaults == {"none", "insert", "audit"} \cup NotifyFaults

UpdateFaults == {"none", "select", "update", "audit"} \cup NotifyFaults

NextTicket ==
    \/ Tick
    \/ \E valid \in BOOLEAN, r \in 0..MaxRand, fault \in CreateFaults :
          createTicket(valid, r, fault)
    \/ \E id \in 1..MaxTickets, status \in TicketStatusInputs \cup {NULL},
          resolution \in BOOLEAN, fault \in UpdateFaults :
          updateTicket(id, status, resolution, fault)
    \/ \E id \in 1..MaxTickets, fault \in {"none", "update"} : deleteTicket(id, fault)
    \/ \E r \in 0..MaxRand, fault \in {"none", "insert"} : processIncomingEmail(r, fault)
    \/ \E ids \in Orders({i \in 1..Len(tickets) : AutoCloseEligible(tickets[i], now)}),
          failAt \in 0..(2 * MaxTickets) :
          autoCloseResolvedTickets(ids, failAt)

SpecTicket == Init /\ [][NextTicket]_vars

\* ---- transactions table ----

\* the index of the row with this transaction_id, 0 when there is none
\* (transaction_id is UNIQUE)
FindTransaction(txs, tid) ==
    IF \E i \in 1..Len(txs) : txs[i].transaction_id = tid
    THEN CHOOSE i \in 1..Len(txs) : txs[i].transaction_id = tid
    ELSE 0

\* completed_at = CASE WHEN $1 IN ('success', 'failed', 'refunded', 'cancelled')
\*                THEN CURRENT_TIMESTAMP ELSE completed_at END
CompletedAt(row, status, t) ==
    IF status \in TerminalStatuses THEN <<t>> ELSE row.completed_at

\* UPDATE transactions SET status = $1, updated_at = CURRENT_TIMESTAMP, completed_at = CASE ...
UpdatedTransactionRow(row, status, t) ==
    [row EXCEPT !.status = status, !.updated_at = t,
                !.completed_at = CompletedAt(row, status, t)]

\* INSERT INTO transactions: the column list has no completed_at, which stays NULL
NewTransaction(id, tid, status, t) ==
    [id |-> id, transaction_id |-> tid, status |-> status,
     updated_at |-> t, completed_at |-> <<>>]

\* an INSERT without ON CONFLICT into a table without the UNIQUE constraint
Upsert_plainInsert(txs, tid, status, t) ==
    Append(txs, NewTransaction(Len(txs) + 1, tid, status, t))

\* INSERT ... ON CONFLICT (transaction_id) DO UPDATE SET ... of updateTransactionStatus
Upsert(txs, tid, status, t) ==
    LET i == FindTransaction(txs, tid)
    IN  IF i = 0
        THEN Append(txs, NewTransaction(Len(txs) + 1, tid, status, t))
        ELSE [txs EXCEPT ![i] = UpdatedTransactionRow(txs[i], status, t)]

\* ---- Transaction workflow ----

\* the row rewritten by every sync
StatusDiffers_always(row, fetched) == TRUE

\* if (currentTransaction.status !== statusResponse.status)
StatusDiffers(row, fetched) == row.status # fetched

\* TransactionService.updateTransactionStatus (SyncStatus): the tables after
\* the call, the returned row's transaction_id (NULL when it returns null)
\* and what the call did.  fetched is the status the external source
\* returns; fault names the statement that throws ("fetch": the source
\* gives no answer).
SyncStatus(txs, audit, tid, fetched, fault, t) ==
    LET i == FindTransaction(txs, tid)
        failed == [transactions |-> txs, status_updates |-> audit,
                   result |-> NULL, outcome |-> "failed"]
    IN  IF fault \in {"fetch", "select"} THEN failed
        ELSE IF i = 0
        THEN IF fault = "write" \/ fetched \notin TransactionStatuses THEN failed
             ELSE [transactions |-> Upsert(txs, tid, fetched, t), status_updates |-> audit,
                   result |-> tid, outcome |-> "inserted"]
        ELSE IF StatusDiffers(txs[i], fetched)
        THEN IF fault = "write" \/ fetched \notin TransactionStatuses THEN failed
             ELSE LET written == [txs EXCEPT ![i] = UpdatedTransactionRow(txs[i], fetched, t)]
                  IN  IF fault = "audit"
                      THEN [transactions |-> written, status_updates |-> audit,
                            result |-> NULL, outcome |-> "failed"]
                      ELSE [transactions |-> written,
                            status_updates |->
                                Append(audit, AuditRow("transaction", txs[i].id, txs[i].status,
                                                       fetched)),
                            result |-> tid, outcome |-> "updated"]
        ELSE [transactions |-> txs, status_updates |-> audit,
              result |-> tid, outcome |-> "unchanged"]

\* TransactionService.updateTransactionStatus called on its own; again tells
\* that the preceding handler was the same call, that it returned a row and
\* that the source gives the same status as then
updateTransactionStatus(tid, fetched, fault) ==
    LET after == SyncStatus(transactions, status_updates, tid, fetched, fault, now)
    IN  /\ Len(after.transactions) <= MaxTxns
        /\ Len(after.status_updates) <= MaxAudit
        /\ transactions' = after.transactions
        /\ status_updates' = after.status_updates
        /\ lastOp' = [op |-> "SyncStatus", id |-> tid,
                      fetched |-> IF fault = "fetch" THEN NULL ELSE fetched,
                      result |-> after.result, outcome |-> after.outcome,
                      again |-> /\ lastOp.op = "SyncStatus"
                                /\ lastOp.id = tid
                                /\ lastOp.result # NULL
                                /\ fault # "fetch"
                                /\ lastOp.fetched = fetched]
        /\ outbox' = <<>>
        /\ emitted' = <<>>
        /\ UNCHANGED <<tickets, now, runs, webhook_logs>>

\* TransactionController.createTransaction with TransactionService.createTransaction
createTransaction(valid, tid, status, fault) ==
    LET given == IF status = NULL THEN "initiated" ELSE status
        stored == /\ valid
                  /\ fault = "none"
                  /\ given \in TransactionStatuses
                  /\ FindTransaction(transactions, tid) = 0
    IN  /\ stored => Len(transactions) < MaxTxns
        /\ transactions' =
              IF stored
              THEN Append(transactions, NewTransaction(Len(transactions) + 1, tid, given, now))
              ELSE transactions
        /\ lastOp' = [op |-> "createTransaction", id |-> tid,
                      code |-> IF ~valid THEN 400 ELSE IF stored THEN 201 ELSE 500]
        /\ outbox' = <<>>
        /\ emitted' = IF stored THEN <<[event |-> "transaction_created", id |-> tid]>> ELSE <<>>
        /\ UNCHANGED <<tickets, status_updates, now, runs, webhook_logs>>

\* TransactionController.updateTransactionStatus (ManualStatusUpdate);
\* sendTransactionNotifications catches whatever its senders throw
manualStatusUpdate(tid, status, fault) ==
    LET i == FindTransaction(transactions, tid)
        found == status # NULL /\ fault # "select" /\ i # 0
        written == found /\ fault # "update" /\ status \in TransactionStatuses
        logged == written /\ fault # "audit"
    IN  /\ logged => Len(status_updates) < MaxAudit
        /\ transactions' =
              IF written
              THEN [transactions EXCEPT ![i] = UpdatedTransactionRow(transactions[i], status, now)]
              ELSE transactions
        /\ status_updates' =
              IF logged
              THEN Append(status_updates,
                          AuditRow("transaction", transactions[i].id, transactions[i].status,
                                   status))
              ELSE status_updates
        /\ outbox' = IF logged THEN <<Email("transaction_status_update", tid)>> ELSE <<>>
        /\ emitted' = IF logged THEN <<[event |-> "transaction_updated", id |-> tid]>> ELSE <<>>
        /\ lastOp' = [op |-> "manualStatusUpdate", id |-> tid,
                      code |-> IF status = NULL THEN 400
                               ELSE IF fault = "select" THEN 500
                               ELSE IF i = 0 THEN 404
                               ELSE IF logged THEN 200 ELSE 500,
                      delivery |-> Delivery(logged, fault)]
        /\ UNCHANGED <<tickets, now, runs, webhook_logs>>

\* TransactionController.refreshTransactionStatus
refreshTransactionStatus(tid, fetched, fault) ==
    LET i == FindTransaction(transactions, tid)
        after == IF i = 0
                 THEN [transactions |-> transactions, status_updates |-> status_updates,
                       result |-> NULL, outcome |-> "none"]
                 ELSE SyncStatus(transactions, status_updates, tid, fetched, fault, now)
        notify == /\ after.result # NULL
                  /\ after.transactions[i].status # transactions[i].status
    IN  /\ Len(after.status_updates) <= MaxAudit
        /\ transactions' = after.transactions
        /\ status_updates' = after.status_updates
        /\ outbox' = IF notify THEN <<Email("transaction_status_update", tid)>> ELSE <<>>
        /\ emitted' = IF notify THEN <<[event |-> "transaction_updated", id |-> tid]>> ELSE <<>>
        /\ lastOp' = [op |-> "refreshTransactionStatus", id |-> tid,
                      syncs |-> IF i = 0 THEN <<>>
                                ELSE <<[id |-> tid, outcome |-> after.outcome]>>,
                      code |-> IF i = 0 THEN 404
                               ELSE IF after.result = NULL THEN 500 ELSE 200]
        /\ UNCHANGED <<tickets, now, runs, webhook_logs>>

\* CHECK constraint of webhook_logs.status
WebhookLogStatuses == {"pending", "processed", "failed"}

\* WebhookController.logWebhook: one INSERT INTO webhook_logs; an INSERT that
\* throws (written is FALSE, or the status violates the CHECK constraint) is
\* caught and leaves the table as it is
logWebhook(logs, written, source, status) ==
    IF written /\ status \in WebhookLogStatuses
    THEN Append(logs, [source |-> source, status |-> status])
    ELSE logs

\* the bytes of a request body: pad bytes of insignificant white space and the
\* members transaction_id and status (NULL: the member is absent)
RawBodies ==
    {<<pad, tid, st>> : pad \in 0..MaxPad, tid \in {"T1", NULL}, st \in {"success", NULL}}

\* express.json(): req.body is the parsed object
ParseJson(raw) == [transaction_id |-> raw[2], status |-> raw[3]]

\* JSON.stringify(req.body): the members without white space
JsonStringify(body) == <<0, body.transaction_id, body.status>>

\* crypto.createHmac('sha256', secret).update(payload).digest('hex'): different
\* secrets or payloads give different digests
Hmac(secret, payload) == <<"hmac", secret, payload>>

\* the signature header a sender computes with a key over some bytes
SignatureHeader(key, payload) == <<"sha256=", Hmac(key, payload)>>

\* WebhookController.verifySignature; an absent header (<<>>) or one of another
\* length makes Buffer.from or timingSafeEqual throw, which is caught
verifySignature(payload, signature, secret) ==
    signature = SignatureHeader(secret, payload)

\* WebhookController.handleTransactionWebhook: secret is
\* TRANSACTION_WEBHOOK_SECRET (NULL: not configured), raw the bytes of the
\* body, signature the x-signature header, written whether the inserts into
\* webhook_logs succeed
handleTransactionWebhook(secret, raw, signature, fetched, fault, written) ==
    LET body == ParseJson(raw)
        tid == body.transaction_id
        rejected == /\ secret # NULL
                    /\ ~verifySignature(JsonStringify(body), signature, secret)
        valid == ~rejected /\ tid # NULL /\ body.status # NULL
        after == IF valid
                 THEN SyncStatus(transactions, status_updates, tid, fetched, fault, now)
                 ELSE [transactions |-> transactions, status_updates |-> status_updates,
                       result |-> NULL, outcome |-> "none"]
        updated == after.result # NULL
        logged == logWebhook(webhook_logs, written, "transaction", "pending")
    IN  /\ Len(after.transactions) <= MaxTxns
        /\ Len(after.status_updates) <= MaxAudit
        /\ Len(logged) + 1 <= MaxLogs
        /\ transactions' = after.transactions
        /\ status_updates' = after.status_updates
        /\ webhook_logs' =
              IF ~valid THEN logged
              ELSE logWebhook(logged, written, "transaction",
                              IF updated THEN "processed" ELSE "failed")
        /\ outbox' = IF updated THEN <<Email("transaction_status_update", tid)>> ELSE <<>>
        /\ emitted' = IF updated THEN <<[event |-> "transaction_updated", id |-> tid]>> ELSE <<>>
        /\ lastOp' = [op |-> "handleTransactionWebhook", id |-> tid,
                      syncs |-> IF valid THEN <<[id |-> tid, outcome |-> after.outcome]>>
                                ELSE <<>>,
                      code |-> IF rejected THEN 401
                               ELSE IF ~valid THEN 400
                               ELSE IF updated THEN 200 ELSE 500,
                      written |-> written]
        /\ UNCHANGED <<tickets, now, runs>>

\* a batch that ends at the first id whose sync fails
RECURSIVE BatchSync_stopsEarly(_, _, _, _, _, _)
BatchSync_stopsEarly(items, k, txs, audit, result, syncs) ==
    IF k > Len(items)
    THEN [transactions |-> txs, status_updates |-> audit, result |-> result, syncs |-> syncs]
    ELSE LET after == SyncStatus(txs, audit, items[k].id, items[k].fetched, items[k].fault, now)
         IN  IF after.result = NULL
             THEN [transactions |-> after.transactions, status_updates |-> after.status_updates,
                   result |-> result,
                   syncs |-> Append(syncs, [id |-> items[k].id, outcome |-> after.outcome])]
             ELSE BatchSync_stopsEarly(items, k + 1, after.transactions, after.status_updates,
                                       Append(result, after.result),
                                       Append(syncs, [id |-> items[k].id,
                                                      outcome |-> after.outcome]))

\* TransactionService.batchUpdateTransactions (BatchSync): every item is an id
\* with the answer of the external source and the statement that throws for
\* it; result lists the returned rows by transaction_id, syncs what each call did
RECURSIVE BatchSync(_, _, _, _, _, _)
BatchSync(items, k, txs, audit, result, syncs) ==
    IF k > Len(items)
    THEN [transactions |-> txs, status_updates |-> audit, result |-> result, syncs |-> syncs]
    ELSE LET after == SyncStatus(txs, audit, items[k].id, items[k].fetched, items[k].fault, now)
         IN  BatchSync(items, k + 1, after.transactions, after.status_updates,
                       IF after.result # NULL THEN Append(result, after.result) ELSE result,
                       Append(syncs, [id |-> items[k].id, outcome |-> after.outcome]))

\* the status-update e-mails a caller sends, one for every returned transaction
TransactionNotifications(result) ==
    [k \in 1..Len(result) |-> Email("transaction_status_update", result[k])]

\* TransactionController.batchUpdateTransactions
batchUpdateTransactions(items) ==
    LET after == BatchSync(items, 1, transactions, status_updates, <<>>, <<>>)
    IN  /\ Len(after.transactions) <= MaxTxns
        /\ Len(after.status_updates) <= MaxAudit
        /\ transactions' = after.transactions
        /\ status_updates' = after.status_updates
        /\ outbox' = TransactionNotifications(after.result)
        /\ emitted' = <<>>
        /\ lastOp' = [op |-> "batchUpdateTransactions",
                      code |-> IF items = <<>> THEN 400 ELSE 200,
                      ids |-> [k \in 1..Len(items) |-> items[k].id],
                      result |-> after.result, syncs |-> after.syncs]
        /\ UNCHANGED <<tickets, now, runs, webhook_logs>>

\* WHERE status IN ('initiated', 'pending', 'processing')
\* AND updated_at < CURRENT_TIMESTAMP - INTERVAL '5 minutes'
IsPending(row, t) == row.status \in PendingStatuses /\ row.updated_at < t - StaleMinutes

\* LIMIT 50 of getPendingTransactions
PendingLimit == 50

\* batchSize of updateTransactionStatuses
BatchSize == 10

Min(a, b) == IF a < b THEN a ELSE b

\* the query of getPendingTransactions with LIMIT limit: the results it may
\* give, oldest updated_at first
PendingUpTo(txs, t, limit) ==
    LET stale == {i \in 1..Len(txs) : IsPending(txs[i], t)}
        sorted == {q \in Orders(stale) :
                      \A i, j \in 1..Len(q) :
                          i < j => txs[q[i]].updated_at <= txs[q[j]].updated_at}
    IN  {[k \in 1..Min(limit, Len(q)) |-> txs[q[k]].transaction_id] : q \in sorted}

\* TransactionService.getPendingTransactions: at most PendingLimit ids
PendingTransactions(txs, t) == PendingUpTo(txs, t, PendingLimit)

\* the loop of updateTransactionStatuses over slices of BatchSize ids
RECURSIVE SyncJobLoop(_, _, _, _, _, _)
SyncJobLoop(items, i, txs, audit, result, syncs) ==
    IF i > Len(items)
    THEN [transactions |-> txs, status_updates |-> audit, result |-> result, syncs |-> syncs]
    ELSE LET batch == SubSeq(items, i, Min(i + BatchSize - 1, Len(items)))
             after == BatchSync(batch, 1, txs, audit, <<>>, <<>>)
         IN  SyncJobLoop(items, i + BatchSize, after.transactions, after.status_updates,
                         result \o after.result, syncs \o after.syncs)

\* CronService.updateTransactionStatuses over a query with LIMIT limit; seq
\* numbers the run
syncJobRun(items, limit, seq) ==
    LET after == SyncJobLoop(items, 1, transactions, status_updates, <<>>, <<>>)
    IN  /\ [k \in 1..Len(items) |-> items[k].id] \in PendingUpTo(transactions, now, limit)
        /\ Len(after.status_updates) <= MaxAudit
        /\ transactions' = after.transactions
        /\ status_updates' = after.status_updates
        /\ outbox' = TransactionNotifications(after.result)
        /\ emitted' = <<>>
        /\ lastOp' = [op |-> "updateTransactionStatuses",
                      ids |-> [k \in 1..Len(items) |-> items[k].id],
                      result |-> after.result, syncs |-> after.syncs, seq |-> seq]
        /\ UNCHANGED <<tickets, now, runs, webhook_logs>>

\* CronService.updateTransactionStatuses
updateTransactionStatuses(items) == syncJobRun(items, PendingLimit, 0)

\* ---- specifications ----

\* one transaction, every way of writing it
OneTxn == {"T1"}

SyncFaults == {"none", "fetch", "select", "write", "audit"}

NextTxn ==
    \/ Tick
    \/ \E tid \in OneTxn, fetched \in TxnStatusInputs, fault \in SyncFaults :
          updateTransactionStatus(tid, fetched, fault)
    \/ \E valid \in BOOLEAN, tid \in OneTxn, status \in TxnStatusInputs \cup {NULL},
          fault \in {"none", "insert"} :
          createTransaction(valid, tid, status, fault)
    \/ \E tid \in OneTxn, status \in TxnStatusInputs \cup {NULL}, fault \in UpdateFaults :
          manualStatusUpdate(tid, status, fault)

SpecTxn == Init /\ [][NextTxn]_vars

\* the callers of SyncStatus over all transaction ids; the external source
\* answers pending or success, or not at all, and a write may throw; no
\* webhook secret is configured and the inserts into webhook_logs throw (they
\* are caught), SpecWebhook covers both
CallerStatusInputs == {"pending", "success"}

CallerFaults == {"none", "fetch", "write"}

\* what one call of SyncStatus meets: an answer of the source, or a fault
SyncItems ==
    {[id |-> tid, fetched |-> f, fault |-> "none"] : tid \in TxnIds, f \in CallerStatusInputs}
    \cup {[id |-> tid, fetched |-> "pending", fault |-> x] :
             tid \in TxnIds, x \in CallerFaults \ {"none"}}

\* the lists of at most n items
RECURSIVE ItemLists(_)
ItemLists(n) ==
    IF n = 0 THEN {<<>>}
    ELSE LET shorter == ItemLists(n - 1)
         IN  shorter \cup {Append(l, it) : l \in {q \in shorter : Len(q) = n - 1}, it \in SyncItems}

NextSync ==
    \/ Tick
    \/ \E tid \in TxnIds : createTransaction(TRUE, tid, "pending", "none")
    \/ \E it \in SyncItems : refreshTransactionStatus(it.id, it.fetched, it.fault)
    \/ \E valid \in BOOLEAN, it \in SyncItems :
          handleTransactionWebhook(NULL, <<0, IF valid THEN it.id ELSE NULL, "success">>, <<>>,
                                   it.fetched, it.fault, FALSE)
    \/ \E items \in ItemLists(MaxBatch) : batchUpdateTransactions(items)
    \/ \E items \in ItemLists(MaxTxns) : updateTransactionStatuses(items)

SpecSync == Init /\ [][NextSync]_vars

\* ---- scheduler jobs, one database statement at a time ----

\* the job runs in progress; two runs of one job overlap when a run outlives
\* its interval or the job is triggered by hand while it runs
ActiveRuns == {r \in RunIds : runs[r].job # "idle"}

AllIdle == ActiveRuns = {}

\* a run of job starts in slot r while only runs of the same job are in progress
CanStart(r, job) ==
    /\ runs[r].job = "idle"
    /\ \A q \in ActiveRuns : runs[q].job = job

\* autoCloseResolvedTickets: the SELECT of the tickets to close, in a free slot
autoCloseBegin(r, ids) ==
    /\ runs[r].job = "idle"
    /\ ids # <<>>
    /\ runs' = [runs EXCEPT ![r] = [IdleRun EXCEPT !.job = "autoClose", !.pc = "update",
                                                   !.ids = ids, !.k = 1]]
    /\ lastOp' = [op |-> "autoCloseSelect", run |-> r]
    /\ outbox' = <<>>
    /\ emitted' = <<>>
    /\ UNCHANGED <<tickets, transactions, status_updates, now, webhook_logs>>

\* autoCloseResolvedTickets starts while only runs of the same job are in progress
autoCloseSelect(r, ids) == CanStart(r, "autoClose") /\ autoCloseBegin(r, ids)

\* autoCloseResolvedTickets: UPDATE tickets SET status = 'closed' WHERE id = $1
autoCloseUpdate(r) ==
    LET id == runs[r].ids[runs[r].k]
    IN  /\ runs[r].job = "autoClose"
        /\ runs[r].pc = "update"
        /\ tickets' = [tickets EXCEPT ![id].status = "closed", ![id].updated_at = now]
        /\ runs' = [runs EXCEPT ![r].pc = "audit"]
        /\ lastOp' = [op |-> "autoCloseUpdate", run |-> r]
        /\ UNCHANGED <<transactions, status_updates, now, outbox, emitted, webhook_logs>>

\* autoCloseResolvedTickets: INSERT INTO status_updates, then the next ticket
autoCloseInsert(r) ==
    LET id == runs[r].ids[runs[r].k]
    IN  /\ runs[r].job = "autoClose"
        /\ runs[r].pc = "audit"
        /\ Len(status_updates) < MaxJobAudit
        /\ status_updates' = Append(status_updates, AuditRow("ticket", id, "resolved", "closed"))
        /\ runs' = [runs EXCEPT ![r] = IF runs[r].k < Len(runs[r].ids)
                                       THEN [runs[r] EXCEPT !.pc = "update", !.k = @ + 1]
                                       ELSE IdleRun]
        /\ lastOp' = [op |-> "autoCloseInsert", run |-> r]
        /\ UNCHANGED <<tickets, transactions, now, outbox, emitted, webhook_logs>>

\* updateTransactionStatuses: getPendingTransactions
syncSelect(r, ids) ==
    /\ CanStart(r, "sync")
    /\ ids \in PendingTransactions(transactions, now)
    /\ ids # <<>>
    /\ runs' = [runs EXCEPT ![r] = [IdleRun EXCEPT !.job = "sync", !.pc = "read",
                                                   !.ids = ids, !.k = 1]]
    /\ lastOp' = [op |-> "syncSelect", run |-> r]
    /\ outbox' = <<>>
    /\ emitted' = <<>>
    /\ UNCHANGED <<tickets, transactions, status_updates, now, webhook_logs>>

\* the run moves to the next id of its batch, or to the notifications
NextId(run) ==
    IF run.k < Len(run.ids)
    THEN [run EXCEPT !.pc = "read", !.k = @ + 1, !.read = NULL, !.fetched = NULL]
    ELSE [run EXCEPT !.pc = "notify", !.read = NULL, !.fetched = NULL]

\* updateTransactionStatus: the answer of the external source and the SELECT
\* of the stored row; without a row the INSERT follows, and a row whose status
\* equals the answer is returned as it is
syncRead(r, fetched) ==
    LET tid == runs[r].ids[runs[r].k]
        i == FindTransaction(transactions, tid)
    IN  /\ runs[r].job = "sync"
        /\ runs[r].pc = "read"
        /\ runs' = [runs EXCEPT ![r] =
                       IF i = 0
                       THEN [runs[r] EXCEPT !.pc = "insert", !.fetched = fetched]
                       ELSE IF StatusDiffers(transactions[i], fetched)
                       THEN [runs[r] EXCEPT !.pc = "update", !.read = transactions[i].status,
                                            !.fetched = fetched]
                       ELSE NextId([runs[r] EXCEPT !.result = Append(@, tid)])]
        /\ lastOp' = [op |-> "syncRead", run |-> r]
        /\ UNCHANGED <<tickets, transactions, status_updates, now, outbox, emitted, webhook_logs>>

\* updateTransactionStatus: UPDATE transactions SET status = $1, ... WHERE transaction_id = $3
syncUpdate(r) ==
    LET tid == runs[r].ids[runs[r].k]
        i == FindTransaction(transactions, tid)
    IN  /\ runs[r].job = "sync"
        /\ runs[r].pc = "update"
        /\ transactions' = [transactions EXCEPT
                               ![i] = UpdatedTransactionRow(transactions[i], runs[r].fetched, now)]
        /\ runs' = [runs EXCEPT ![r].pc = "audit"]
        /\ lastOp' = [op |-> "syncUpdate", run |-> r]
        /\ UNCHANGED <<tickets, status_updates, now, outbox, emitted, webhook_logs>>

\* updateTransactionStatus: INSERT INTO status_updates with the status read
\* before the UPDATE as old_status
syncInsert(r) ==
    LET tid == runs[r].ids[runs[r].k]
        i == FindTransaction(transactions, tid)
    IN  /\ runs[r].job = "sync"
        /\ runs[r].pc = "audit"
        /\ Len(status_updates) < MaxJobAudit
        /\ status_updates' = Append(status_updates,
                                    AuditRow("transaction", transactions[i].id, runs[r].read,
                                             runs[r].fetched))
        /\ runs' = [runs EXCEPT ![r] = NextId([runs[r] EXCEPT !.result = Append(@, tid)])]
        /\ lastOp' = [op |-> "syncInsert", run |-> r]
        /\ UNCHANGED <<tickets, transactions, now, outbox, emitted, webhook_logs>>

\* updateTransactionStatuses: the notifications for the rows the batch returned
syncNotify(r) ==
    /\ runs[r].job = "sync"
    /\ runs[r].pc = "notify"
    /\ outbox' = TransactionNotifications(runs[r].result)
    /\ runs' = [runs EXCEPT ![r] = IdleRun]
    /\ lastOp' = [op |-> "syncNotify", run |-> r]
    /\ UNCHANGED <<tickets, transactions, status_updates, now, emitted, webhook_logs>>

\* tickets get resolved and transactions stored while no job runs; then runs of
\* one job at a time take their steps in any interleaving
NextJobs ==
    \/ AllIdle /\ Tick
    \/ AllIdle /\ processIncomingEmail(0, "none")
    \/ \E id \in 1..MaxTickets : AllIdle /\ updateTicket(id, "resolved", FALSE, "none")
    \/ \E tid \in TxnIds : AllIdle /\ createTransaction(TRUE, tid, "pending", "none")
    \/ \E r \in RunIds :
          \E ids \in Orders({i \in 1..Len(tickets) : AutoCloseEligible(tickets[i], now)}) :
              autoCloseSelect(r, ids)
    \/ \E r \in RunIds : autoCloseUpdate(r)
    \/ \E r \in RunIds : autoCloseInsert(r)
    \/ \E r \in RunIds, ids \in PendingTransactions(transactions, now) : syncSelect(r, ids)
    \/ \E r \in RunIds, fetched \in CallerStatusInputs : syncRead(r, fetched)
    \/ \E r \in RunIds : syncUpdate(r)
    \/ \E r \in RunIds : syncInsert(r)
    \/ \E r \in RunIds : syncNotify(r)

SpecJobs == Init /\ [][NextJobs]_vars

\* ---- webhooks ----

\* SUPPORT_EMAILS, lower case
SupportEmails == {"support@company.com"}

\* the to addresses of the e-mails received (NULL: none)
ToAddresses == {"Support@Company.com", "sales@company.com", NULL}

\* String.prototype.toLowerCase on the addresses of the model
ToLowerCase(address) ==
    IF address = "Support@Company.com" THEN "support@company.com" ELSE address

\* emailData.to && supportEmails.some(email => emailData.to.toLowerCase().includes(...))
IsToSupport(to) == to # NULL /\ ToLowerCase(to) \in SupportEmails

\* WebhookController.handleEmailWebhook: complete tells whether the body has
\* from and subject, to is its to address
handleEmailWebhook(complete, to, r, fault, written) ==
    LET logged == logWebhook(webhook_logs, written, "email", "pending")
        support == complete /\ IsToSupport(to)
        after == IF support THEN IncomingEmail(tickets, r, fault, now)
                 ELSE [tickets |-> tickets, id |-> 0, outbox |-> <<>>, emitted |-> <<>>]
    IN  /\ Len(after.tickets) <= MaxTickets
        /\ Len(logged) + 1 <= MaxLogs
        /\ tickets' = after.tickets
        /\ outbox' = after.outbox
        /\ emitted' = after.emitted
        /\ webhook_logs' =
              IF ~complete THEN logged
              ELSE IF ~support THEN logWebhook(logged, written, "email", "ignored")
              ELSE logWebhook(logged, written, "email",
                              IF after.id # 0 THEN "processed" ELSE "failed")
        /\ lastOp' = [op |-> "handleEmailWebhook",
                      code |-> IF ~complete THEN 400
                               ELSE IF ~support \/ after.id # 0 THEN 200 ELSE 500,
                      id |-> after.id, support |-> support, written |-> written]
        /\ UNCHANGED <<transactions, status_updates, now, runs>>

\* WebhookController.handleWhatsAppWebhook; WhatsAppService.handleWebhook
\* catches its own errors and writes only whatsapp_logs
handleWhatsAppWebhook(written) ==
    /\ Len(webhook_logs) + 1 <= MaxLogs
    /\ webhook_logs' = logWebhook(webhook_logs, written, "whatsapp", "pending")
    /\ outbox' = <<>>
    /\ emitted' = <<>>
    /\ lastOp' = [op |-> "handleWhatsAppWebhook", code |-> 200, written |-> written]
    /\ UNCHANGED <<tickets, transactions, status_updates, now, runs>>

\* WebhookController.handleCRMWebhook: the event handlers only log to the console
handleCRMWebhook(secret, raw, signature, written) ==
    LET rejected == /\ secret # NULL
                    /\ ~verifySignature(JsonStringify(ParseJson(raw)), signature, secret)
        logged == logWebhook(webhook_logs, written, "crm", "pending")
    IN  /\ Len(logged) + 1 <= MaxLogs
        /\ webhook_logs' = IF rejected THEN logged
                           ELSE logWebhook(logged, written, "crm", "processed")
        /\ outbox' = <<>>
        /\ emitted' = <<>>
        /\ lastOp' = [op |-> "handleCRMWebhook", code |-> IF rejected THEN 401 ELSE 200,
                      written |-> written]
        /\ UNCHANGED <<tickets, transactions, status_updates, now, runs>>

\* WhatsAppService.verifyWebhook: verifyToken is WHATSAPP_VERIFY_TOKEN; an
\* unset variable and an absent query parameter are both undefined (NULL),
\* and undefined === undefined
verifyWebhook(verifyToken, mode, token, challenge) ==
    IF mode = "subscribe" /\ token = verifyToken THEN challenge ELSE NULL

\* WebhookController.verifyWhatsAppWebhook: if (result) answers 200 with the
\* challenge, else 403
verifyWhatsAppWebhook(verifyToken, mode, token, challenge) ==
    LET result == verifyWebhook(verifyToken, mode, token, challenge)
    IN  /\ lastOp' = [op |-> "verifyWhatsAppWebhook", verifyToken |-> verifyToken,
                      mode |-> mode, token |-> token, challenge |-> challenge,
                      code |-> IF result # NULL THEN 200 ELSE 403,
                      sent |-> IF result # NULL THEN result ELSE "Forbidden"]
        /\ outbox' = <<>>
        /\ emitted' = <<>>
        /\ UNCHANGED <<tickets, transactions, status_updates, now, runs, webhook_logs>>

\* the WhatsApp routes: the verification request (GET) and the events (POST)
NextWhatsApp ==
    \/ Tick
    \/ \E verifyToken \in {"v", NULL}, mode \in {"subscribe", "unsubscribe", NULL},
          token \in {"v", "w", NULL}, challenge \in {"c", NULL} :
          verifyWhatsAppWebhook(verifyToken, mode, token, challenge)
    \/ \E written \in BOOLEAN : handleWhatsAppWebhook(written)

SpecWhatsApp == Init /\ [][NextWhatsApp]_vars

\* the shared secret configured, if any, and the keys senders sign with
Secrets == {"s"}

SigningKeys == {"s", "x"}

\* the x-signature headers sent with a body: none, or a signature computed
\* with some key over the bytes sent or over the re-serialised body
SignatureHeaders(raw) ==
    {<<>>} \cup {SignatureHeader(k, p) :
                    k \in SigningKeys, p \in {raw, JsonStringify(ParseJson(raw))}}

NextWebhook ==
    \/ Tick
    \/ \E secret \in Secrets \cup {NULL}, raw \in RawBodies, fetched \in CallerStatusInputs,
          fault \in {"none", "fetch"}, written \in BOOLEAN :
          \E signature \in SignatureHeaders(raw) :
              handleTransactionWebhook(secret, raw, signature, fetched, fault, written)
    \/ \E complete \in BOOLEAN, to \in ToAddresses, r \in 0..MaxRand,
          fault \in {"none", "insert"}, written \in BOOLEAN :
          handleEmailWebhook(complete, to, r, fault, written)
    \/ \E written \in BOOLEAN : handleWhatsAppWebhook(written)
    \/ \E secret \in Secrets \cup {NULL}, raw \in RawBodies, written \in BOOLEAN :
          \E signature \in SignatureHeaders(raw) :
              handleCRMWebhook(secret, raw, signature, written)

SpecWebhook == Init /\ [][NextWebhook]_vars

\* the handlers that notify after their writes, every statement of which may
\* fail, over the tickets and one transaction
NextNotify ==
    \/ Tick
    \/ \E valid \in BOOLEAN, r \in 0..MaxRand, fault \in CreateFaults :
          createTicket(valid, r, fault)
    \/ \E id \in 1..MaxTickets, status \in {"resolved", NULL}, resolution \in BOOLEAN,
          fault \in UpdateFaults :
          updateTicket(id, status, resolution, fault)
    \/ \E tid \in OneTxn : createTransaction(TRUE, tid, "pending", "none")
    \/ \E tid \in OneTxn, status \in CallerStatusInputs, fault \in UpdateFaults :
          manualStatusUpdate(tid, status, fault)

SpecNotify == Init /\ [][NextNotify]_vars

\* ---- manual trigger of the scheduler jobs ----

\* validJobs of triggerCronJob
ValidJobs ==
    {"updateTransactions", "sendMerchantUpdates", "autoCloseTickets", "cleanup", "dailyReports"}

\* DashboardController.triggerCronJob: the call of CronService.runJob is
\* commented out; the handler checks the name and answers
triggerCronJob(jobName) ==
    /\ lastOp' = [op |-> "triggerCronJob", jobName |-> jobName,
                  code |-> IF jobName \in ValidJobs THEN 200 ELSE 400]
    /\ outbox' = <<>>
    /\ emitted' = <<>>
    /\ UNCHANGED <<tickets, transactions, status_updates, now, runs, webhook_logs>>

\* tickets are received and resolved, time passes, the auto-close job runs on
\* its timer and jobs are triggered by name
NextTrigger ==
    \/ Tick
    \/ processIncomingEmail(0, "none")
    \/ \E id \in 1..MaxTickets, status \in {"resolved", "open"} :
          updateTicket(id, status, FALSE, "none")
    \/ \E ids \in Orders({i \in 1..Len(tickets) : AutoCloseEligible(tickets[i], now)}) :
          autoCloseResolvedTickets(ids, 0)
    \/ \E jobName \in ValidJobs \cup {"bogus"} : triggerCronJob(jobName)

SpecTrigger == Init /\ [][NextTrigger]_vars

\* the operations that write a status, one at a time and none of them failing
NextAudit ==
    \/ Tick
    \/ \E r \in 0..MaxRand : createTicket(TRUE, r, "none")
    \/ \E r \in 0..MaxRand : processIncomingEmail(r, "none")
    \/ \E id \in 1..MaxTickets, status \in {"open", "resolved", NULL}, resolution \in BOOLEAN :
          updateTicket(id, status, resolution, "none")
    \/ \E id \in 1..MaxTickets : deleteTicket(id, "none")
    \/ \E ids \in Orders({i \in 1..Len(tickets) : AutoCloseEligible(tickets[i], now)}) :
          autoCloseResolvedTickets(ids, 0)
    \/ \E tid \in OneTxn, status \in CallerStatusInputs :
          createTransaction(TRUE, tid, status, "none")
    \/ \E tid \in OneTxn, fetched \in CallerStatusInputs :
          updateTransactionStatus(tid, fetched, "none")
    \/ \E tid \in OneTxn, status \in CallerStatusInputs :
          manualStatusUpdate(tid, status, "none")

SpecAudit == Init /\ [][NextAudit]_vars

\* ---- ticket handlers, one database statement at a time ----

\* a handler that takes every ticket it updates for resolved
SelectedStatus_resolved(tks, id) == "resolved"

\* SELECT * FROM tickets WHERE id = $1: currentTicket.status
SelectedStatus(tks, id) == tks[id].status

\* an audit row whose old_status is the status stored when the row is inserted
OldStatus_stored(run, row) == row.status

\* the old_status of updateTicket's audit row: currentTicket.status, the
\* status the handler read before its UPDATE
OldStatus(run, row) == run.read

\* the statuses the interleaved Updates supply, and the ticket they update
RaceStatuses == {"open", "resolved"}

OneTicket == {1}

\* updateTicket: the SELECT of the current row.  The slot keeps the id in ids,
\* the status read in read and the status the request supplies in fetched.
updateSelect(r, id, status) ==
    /\ runs[r].job = "idle"
    /\ id \in 1..Len(tickets)
    /\ runs' = [runs EXCEPT ![r] = [IdleRun EXCEPT !.job = "updateTicket", !.pc = "update",
                                                   !.ids = <<id>>, !.k = 1,
                                                   !.read = SelectedStatus(tickets, id),
                                                   !.fetched = status]]
    /\ lastOp' = [op |-> "updateSelect", run |-> r]
    /\ UNCHANGED <<tickets, transactions, status_updates, now, outbox, emitted, webhook_logs>>

\* updateTicket: the UPDATE; without a status change the handler publishes
\* ticket_updated and answers
updateWrite(r) ==
    LET id == runs[r].ids[1]
        status == runs[r].fetched
        changed == StatusChanged(runs[r].read, status)
    IN  /\ runs[r].job = "updateTicket"
        /\ runs[r].pc = "update"
        /\ tickets' = [tickets EXCEPT
                          ![id] = UpdatedTicketRow(tickets[id], runs[r].read, status, now)]
        /\ runs' = [runs EXCEPT ![r] = IF changed THEN [runs[r] EXCEPT !.pc = "audit"]
                                       ELSE IdleRun]
        /\ emitted' = IF changed THEN emitted
                      ELSE <<[event |-> "ticket_updated", id |-> id]>>
        /\ lastOp' = [op |-> "updateWrite", run |-> r]
        /\ UNCHANGED <<transactions, status_updates, now, outbox, webhook_logs>>

\* updateTicket: the INSERT INTO status_updates, the notifications (the
\* request carries no resolution text) and ticket_updated
updateAudit(r) ==
    LET id == runs[r].ids[1]
    IN  /\ runs[r].job = "updateTicket"
        /\ runs[r].pc = "audit"
        /\ Len(status_updates) < MaxJobAudit
        /\ status_updates' = Append(status_updates,
                                    AuditRow("ticket", id, OldStatus(runs[r], tickets[id]),
                                             runs[r].fetched))
        /\ runs' = [runs EXCEPT ![r] = IdleRun]
        /\ outbox' = StatusNotifications(id, runs[r].fetched, FALSE)
        /\ emitted' = <<[event |-> "ticket_updated", id |-> id]>>
        /\ lastOp' = [op |-> "updateAudit", run |-> r]
        /\ UNCHANGED <<tickets, transactions, now, webhook_logs>>

\* Create, Close and the clock between the statements of Updates and of runs
\* of the auto-close job, in any interleaving
NextRace ==
    \/ Tick
    \/ createTicket(TRUE, 0, "none")
    \/ \E id \in OneTicket : deleteTicket(id, "none")
    \/ \E r \in RunIds, id \in OneTicket, status \in RaceStatuses : updateSelect(r, id, status)
    \/ \E r \in RunIds : updateWrite(r)
    \/ \E r \in RunIds : updateAudit(r)
    \/ \E r \in RunIds :
          \E ids \in Orders({i \in 1..Len(tickets) : AutoCloseEligible(tickets[i], now)}) :
              autoCloseBegin(r, ids)
    \/ \E r \in RunIds : autoCloseUpdate(r)
    \/ \E r \in RunIds : autoCloseInsert(r)

SpecRace == Init /\ [][NextRace]_vars

\* ---- the transaction-sync job on its timer ----

\* the LIMIT of getPendingTransactions scaled from 50 rows to 1, so that the
\* transactions of the model can outnumber it
ScaledLimit == 1

\* the instants of the timer's clock: two transactions stored at different
\* times are both stale at the last one
TimerInstants == {0, 10, 1447}

\* the number of the run after the last one, modulo 2
NextSeq == IF lastOp.op = "updateTransactionStatuses" THEN 1 - lastOp.seq ELSE 1

\* one run of the job started by its cron schedule
cronSyncRun == \E items \in ItemLists(ScaledLimit) : syncJobRun(items, ScaledLimit, NextSeq)

NextTimer ==
    \/ Advance(TimerInstants)
    \/ \E tid \in TxnIds : createTransaction(TRUE, tid, "pending", "none")
    \/ cronSyncRun

\* node-cron starts the job at every tick of its schedule
SpecTimer == Init /\ [][NextTimer]_vars /\ WF_vars(cronSyncRun)

\* ---- the transaction-sync job against manual updates ----

\* the statuses an operator sets by hand
ManualStatuses == {"success", "refunded"}

\* one transaction is stored and ages while no job runs; then the statements
\* of sync runs and ManualStatusUpdates take their turns in any interleaving
NextSyncRace ==
    \/ AllIdle /\ Tick
    \/ \E tid \in OneTxn : AllIdle /\ createTransaction(TRUE, tid, "pending", "none")
    \/ \E tid \in OneTxn, status \in ManualStatuses : manualStatusUpdate(tid, status, "none")
    \/ \E r \in RunIds, ids \in PendingTransactions(transactions, now) : syncSelect(r, ids)
    \/ \E r \in RunIds, fetched \in CallerStatusInputs : syncRead(r, fetched)
    \/ \E r \in RunIds : syncUpdate(r)
    \/ \E r \in RunIds : syncInsert(r)
    \/ \E r \in RunIds : syncNotify(r)

SpecSyncRace == Init /\ [][NextSyncRace]_vars

\* ---- SyncStatus of an unknown transaction, one statement at a time ----

\* a caller (the batch endpoint, the webhook) hands one transaction_id to
\* updateTransactionStatus
syncCall(r, tid) ==
    /\ runs[r].job = "idle"
    /\ runs' = [runs EXCEPT ![r] = [IdleRun EXCEPT !.job = "sync", !.pc = "read",
                                                   !.ids = <<tid>>, !.k = 1]]
    /\ lastOp' = [op |-> "syncCall", run |-> r]
    /\ outbox' = <<>>
    /\ emitted' = <<>>
    /\ UNCHANGED <<tickets, transactions, status_updates, now, webhook_logs>>

\* updateTransactionStatus: the INSERT of the branch taken when the SELECT
\* found no row; conflict tells that a row of this transaction_id has been
\* stored since, failed that the statement threw
syncUpsert(r) ==
    LET tid == runs[r].ids[runs[r].k]
        after == Upsert(transactions, tid, runs[r].fetched, now)
    IN  /\ runs[r].job = "sync"
        /\ runs[r].pc = "insert"
        /\ Len(after) <= MaxTxns
        /\ transactions' = after
        /\ runs' = [runs EXCEPT ![r] = NextId([runs[r] EXCEPT !.result = Append(@, tid)])]
        /\ lastOp' = [op |-> "syncUpsert", run |-> r, id |-> tid, status |-> runs[r].fetched,
                      conflict |-> FindTransaction(transactions, tid) # 0, failed |-> FALSE]
        /\ UNCHANGED <<tickets, status_updates, now, outbox, emitted, webhook_logs>>

\* calls of SyncStatus for transactions that may not be stored yet, their
\* statements in any interleaving
NextUpsert ==
    \/ \E r \in RunIds, tid \in TxnIds : syncCall(r, tid)
    \/ \E r \in RunIds, fetched \in CallerStatusInputs : syncRead(r, fetched)
    \/ \E r \in RunIds : syncUpsert(r)
    \/ \E r \in RunIds : syncUpdate(r)
    \/ \E r \in RunIds : syncInsert(r)
    \/ \E r \in RunIds : syncNotify(r)

SpecUpsert == Init /\ [][NextUpsert]_vars

\* ---- ticket List ----

\* the filters of a List request that the model supplies: status (exact),
\* date_from (created_at >=) and search (ILIKE over subject, description and
\* ticket_number); NULL or <<>>: the query parameter is absent or empty.  A
\* search term is a sequence of digits, which only a ticket_number can contain.
ListStatuses == {"open", "resolved", NULL}
ListDates == {<<1000>>, <<>>}
ListSearches == {<<0>>, <<4, 4>>, <<>>}
ListFilters ==
    [status : ListStatuses, date_from : ListDates, search : ListSearches]

\* page and limit of a List request
ListPages == {1, 2}
ListLimits == {1, 10}

\* `%${filters.search}%`
LikePattern(term) == <<"%", term, "%">>

\* the digits of a ticket_number, after the letters TK
NumberDigits(number) == Tail(number)

\* value ILIKE pattern, for a pattern %term%
ILike(value, pattern) ==
    LET term == pattern[2]
    IN  \E i \in 0..(Len(value) - Len(term)) : SubSeq(value, i + 1, i + Len(term)) = term

\* the WHERE clause getTickets builds: its conditions, each with the numbers of
\* its placeholders, the parameter list and paramIndex after it
WhereStatus(filters) ==
    IF filters.status # NULL
    THEN [conds |-> <<[col |-> "status", ph |-> <<1>>]>>, params |-> <<filters.status>>,
          paramIndex |-> 2]
    ELSE [conds |-> <<>>, params |-> <<>>, paramIndex |-> 1]

WhereDateFrom(filters) ==
    LET w == WhereStatus(filters)
    IN  IF filters.date_from # <<>>
        THEN [conds |-> Append(w.conds, [col |-> "created_at", ph |-> <<w.paramIndex>>]),
              params |-> Append(w.params, filters.date_from[1]),
              paramIndex |-> w.paramIndex + 1]
        ELSE w

\* the search condition takes three placeholders with paramIndex++ each, and
\* paramIndex += 2 follows
WhereClause(filters) ==
    LET w == WhereDateFrom(filters)
        p == w.paramIndex
    IN  IF filters.search # <<>>
        THEN [conds |-> Append(w.conds, [col |-> "search", ph |-> <<p, p + 1, p + 2>>]),
              params |-> w.params \o <<LikePattern(filters.search), LikePattern(filters.search),
                                       LikePattern(filters.search)>>,
              paramIndex |-> (p + 3) + 2]
        ELSE w

\* the numbers of the placeholders of a list of conditions
Placeholders(conds) == UNION {{c.ph[k] : k \in 1..Len(c.ph)} : c \in {conds[n] : n \in 1..Len(conds)}}

\* PostgreSQL executes a statement when its placeholders are $1..$n and n
\* parameters are bound; otherwise the statement fails
Binds(placeholders, params) == placeholders = 1..Len(params)

\* one condition of the WHERE clause on one row; subject and description hold
\* no digits, so of the three ILIKEs of a search only ticket_number's can match
CondHolds(c, row, params) ==
    IF c.col = "status" THEN row.status = params[c.ph[1]]
    ELSE IF c.col = "created_at" THEN row.created_at >= params[c.ph[1]]
    ELSE ILike(NumberDigits(row.ticket_number), params[c.ph[3]])

\* the rows of tickets the WHERE clause selects
Selected(conds, params) ==
    {i \in 1..Len(tickets) : \A n \in 1..Len(conds) : CondHolds(conds[n], tickets[i], params)}

\* ORDER BY created_at DESC: the orders the sort may give a set of rows
NewestFirst(S) ==
    {q \in Orders(S) : \A i, j \in 1..Len(q) :
                           i < j => tickets[q[i]].created_at >= tickets[q[j]].created_at}

\* LIMIT $n OFFSET $m of an ordered result
Page(q, limit, offset) ==
    IF offset >= Len(q) THEN <<>> ELSE SubSeq(q, offset + 1, Min(offset + limit, Len(q)))

\* TicketController.getTickets: the ticket query with LIMIT and OFFSET, then
\* the count query over queryParams.slice(0, -2); either failing answers 500
getTickets(filters, page, limit) ==
    LET w == WhereClause(filters)
        offset == (page - 1) * limit
        queryParams == w.params \o <<limit, offset>>
        ticketsBinds == Binds(Placeholders(w.conds) \cup {w.paramIndex, w.paramIndex + 1},
                              queryParams)
        countParams == SubSeq(queryParams, 1, Len(queryParams) - 2)
        countBinds == Binds(Placeholders(w.conds), countParams)
        ok == ticketsBinds /\ countBinds
    IN  /\ \E q \in IF ok THEN NewestFirst(Selected(w.conds, queryParams)) ELSE {<<>>} :
              lastOp' = [op |-> "getTickets", filters |-> filters, page |-> page,
                         limit |-> limit,
                         code |-> IF ok THEN 200 ELSE 500,
                         rows |-> IF ok
                                  THEN Page(q, queryParams[w.paramIndex],
                                            queryParams[w.paramIndex + 1])
                                  ELSE <<>>,
                         total |-> IF ok THEN Cardinality(Selected(w.conds, countParams))
                                   ELSE 0]
        /\ outbox' = <<>>
        /\ emitted' = <<>>
        /\ UNCHANGED <<tickets, transactions, status_updates, now, runs, webhook_logs>>

\* tickets are created and resolved, time passes, and the list is read
NextList ==
    \/ Tick
    \/ \E r \in 0..MaxRand : createTicket(TRUE, r, "none")
    \/ \E id \in 1..MaxTickets : updateTicket(id, "resolved", FALSE, "none")
    \/ \E filters \in ListFilters, page \in ListPages, limit \in ListLimits :
          getTickets(filters, page, limit)

SpecList == Init /\ [][NextList]_vars

\* ---- properties of the ticket workflow (SpecTicket) ----

\* the audit rows of a ticket
TicketAudit(id) == AuditOf("ticket", id)

\* C1: when createTicket answers 201 the ticket it stored has status open and
\* status_updates holds exactly one row of that ticket, (ticket, NULL -> open).
C1_CreateOpenWithOneAuditRow ==
    (lastOp.op = "createTicket" /\ lastOp.code = 201) =>
        /\ lastOp.id \in 1..Len(tickets)
        /\ tickets[lastOp.id].status = "open"
        /\ TicketAudit(lastOp.id) =
              <<[entity_type |-> "ticket", entity_id |-> lastOp.id,
                 old_status |-> NULL, new_status |-> "open"]>>

\* a second ticket was created while the audit log already held a row
C1_Witness ==
    /\ lastOp.op = "createTicket"
    /\ lastOp.code = 201
    /\ lastOp.id = 2
    /\ Len(status_updates) = 2

\* C2: no two stored tickets share a ticket_number; a Create or a
\* ProcessIncomingEmail that generates a number already in the table stores
\* nothing; no step changes the ticket_number of a stored ticket or removes it.
C2_TicketNumberUniqueImmutable ==
    [][/\ \A i, j \in 1..Len(tickets') :
              i # j => tickets'[i].ticket_number # tickets'[j].ticket_number
       /\ \A i \in 1..Len(tickets) :
              /\ i <= Len(tickets')
              /\ tickets'[i].ticket_number = tickets[i].ticket_number
       /\ lastOp'.op \in {"createTicket", "processIncomingEmail"} =>
              \A r \in 0..MaxRand :
                  (/\ \E i \in 1..Len(tickets) :
                         tickets[i].ticket_number = TicketNumber(now, r)
                   /\ \/ \E valid \in BOOLEAN, fault \in CreateFaults :
                            createTicket(valid, r, fault)
                      \/ \E fault \in {"none", "insert"} : processIncomingEmail(r, fault))
                  => tickets' = tickets]_vars

\* a Create generated the number of a stored ticket and stored nothing
C2_Witness ==
    /\ lastOp.op = "createTicket"
    /\ lastOp.code = 500
    /\ lastOp.id = 0
    /\ Len(tickets) >= 1
    /\ \E i \in 1..Len(tickets), r \in 0..MaxRand :
          tickets[i].ticket_number = TicketNumber(now, r)

\* C3: an Update that answers 200 and supplies a status other than the stored
\* one appends exactly one audit row (stored status -> requested status) and
\* sets updated_at to the current time; one that supplies the stored status, or
\* none, appends no audit row.
C3_UpdateAuditsStatusChange ==
    [][(lastOp'.op = "updateTicket" /\ lastOp'.code = 200) =>
       \A id \in {lastOp'.id}, status \in TicketStatusInputs \cup {NULL},
          resolution \in BOOLEAN, fault \in UpdateFaults :
          updateTicket(id, status, resolution, fault) =>
              IF status # NULL /\ status # tickets[id].status
              THEN /\ status_updates' =
                         Append(status_updates,
                                [entity_type |-> "ticket", entity_id |-> id,
                                 old_status |-> tickets[id].status, new_status |-> status])
                   /\ tickets'[id].status = status
                   /\ tickets'[id].updated_at = now
              ELSE status_updates' = status_updates]_vars

\* an Update changed the status of a ticket at a later time than its creation
C3_Witness ==
    /\ lastOp.op = "updateTicket"
    /\ lastOp.code = 200
    /\ Len(status_updates) >= 1
    /\ status_updates[Len(status_updates)].entity_id = lastOp.id
    /\ status_updates[Len(status_updates)].old_status = "open"
    /\ status_updates[Len(status_updates)].new_status = "resolved"
    /\ tickets[lastOp.id].status = "resolved"
    /\ tickets[lastOp.id].updated_at = now
    /\ now > 0

\* C4 as claimed: once resolved_at is set no step changes it.
C4_ResolvedAtWrittenOnce ==
    [][\A i \in 1..Len(tickets) :
          tickets[i].resolved_at # <<>> => tickets'[i].resolved_at = tickets[i].resolved_at]_vars

\* C4 amended: resolved_at is written by exactly the Updates that move a ticket
\* from a status other than resolved to resolved, each setting it to the
\* current time (also for a ticket resolved before and reopened or closed
\* since); every other step, an Update to resolved of a resolved ticket
\* included, leaves it as it is.
C4_ResolvedAtWrittenOnEntry ==
    [][\A i \in 1..Len(tickets) :
          IF /\ lastOp'.op = "updateTicket"
             /\ lastOp'.id = i
             /\ tickets[i].status # "resolved"
             /\ tickets'[i].status = "resolved"
          THEN tickets'[i].resolved_at = <<now>>
          ELSE tickets'[i].resolved_at = tickets[i].resolved_at]_vars

\* an Update to resolved of a ticket that is already resolved, at a later time
\* than its resolution
C4_Witness ==
    /\ lastOp.op = "updateTicket"
    /\ lastOp.code = 200
    /\ tickets[lastOp.id].status = "resolved"
    /\ tickets[lastOp.id].updated_at = now
    /\ tickets[lastOp.id].resolved_at # <<>>
    /\ tickets[lastOp.id].resolved_at # <<now>>

\* ---- properties of the transaction workflow (SpecTxn) ----

\* C5: once completed_at of a transaction is set, no SyncStatus and no
\* ManualStatusUpdate changes it.
C5_CompletedAtWrittenOnce ==
    [][\A i \in 1..Len(transactions) :
          transactions[i].completed_at # <<>>
              => transactions'[i].completed_at = transactions[i].completed_at]_vars

\* C6: every stored transaction in a terminal status has completed_at set.
C6_TerminalHasCompletedAt ==
    \A i \in 1..Len(transactions) :
        transactions[i].status \in TerminalStatuses => transactions[i].completed_at # <<>>

\* C7: a ManualStatusUpdate or a SyncStatus whose status equals the stored
\* status leaves the transaction row as it is and appends no audit row.
C7_SameStatusLeavesRow ==
    [][\A tid \in TxnIds :
          LET i == FindTransaction(transactions, tid)
          IN  i # 0 =>
                 /\ \A fault \in UpdateFaults :
                        manualStatusUpdate(tid, transactions[i].status, fault)
                            => UNCHANGED <<transactions, status_updates>>
                 /\ \A fault \in SyncFaults \ {"fetch"} :
                        updateTransactionStatus(tid, transactions[i].status, fault)
                            => UNCHANGED <<transactions, status_updates>>]_vars

SyncCallers ==
    {"refreshTransactionStatus", "handleTransactionWebhook",
     "batchUpdateTransactions", "updateTransactionStatuses"}

\* C9: a caller sends no e-mail for a transaction whose SyncStatus found the
\* stored status equal to the fetched one.
C9_NoNotificationWhenUnchanged ==
    lastOp.op \in SyncCallers =>
        \A k \in 1..Len(lastOp.syncs) :
            lastOp.syncs[k].outcome = "unchanged" =>
                \A m \in 1..Len(outbox) : outbox[m].ref # lastOp.syncs[k].id

\* C10: BatchSync calls SyncStatus for every id of its list, whatever the calls
\* before it did; it returns the rows of exactly the calls that did not fail,
\* each of which is stored; the batch endpoint answers 200.
C10_BatchSyncsEveryId ==
    lastOp.op \in {"batchUpdateTransactions", "updateTransactionStatuses"} =>
        /\ Len(lastOp.syncs) = Len(lastOp.ids)
        /\ \A k \in 1..Len(lastOp.ids) :
              /\ lastOp.syncs[k].id = lastOp.ids[k]
              /\ lastOp.syncs[k].outcome # "failed" =>
                    \E i \in 1..Len(transactions) :
                        transactions[i].transaction_id = lastOp.ids[k]
        /\ LET done == SelectSeq(lastOp.syncs, LAMBDA c : c.outcome # "failed")
           IN  lastOp.result = [k \in 1..Len(done) |-> done[k].id]
        /\ (lastOp.op = "batchUpdateTransactions" /\ lastOp.ids # <<>>) => lastOp.code = 200

\* the sync of the first id failed and the second id, another one, was synced
C10_Witness ==
    /\ lastOp.op = "batchUpdateTransactions"
    /\ Len(lastOp.syncs) = 2
    /\ lastOp.syncs[1].outcome = "failed"
    /\ lastOp.syncs[2].outcome \in {"inserted", "updated"}
    /\ lastOp.syncs[1].id # lastOp.syncs[2].id
    /\ lastOp.result = <<lastOp.syncs[2].id>>

\* C11: the list BatchSync returns holds exactly the transactions this call
\* inserted or whose status it changed; one whose SyncStatus found the status
\* unchanged is not in it.
C11_ResultOnlyUpdated ==
    lastOp.op \in {"batchUpdateTransactions", "updateTransactionStatuses"} =>
        LET changed == SelectSeq(lastOp.syncs,
                                 LAMBDA c : c.outcome \in {"inserted", "updated"})
        IN  lastOp.result = [k \in 1..Len(changed) |-> changed[k].id]

\* the audit rows of a ticket in a given log
TicketAuditIn(audit, id) ==
    SelectSeq(audit, LAMBDA r : r.entity_type = "ticket" /\ r.entity_id = id)

\* C12: a run of the auto-close job in which no statement throws closes every
\* ticket that is resolved with resolved_at more than 24 hours before now and
\* gives it exactly one audit row (resolved -> closed); every other ticket keeps
\* its row and gains no audit row.
C12_AutoCloseClosesStale ==
    [][(/\ lastOp'.op = "autoCloseResolvedTickets"
        /\ lastOp'.completed
        /\ now' = now)
       => /\ Len(tickets') = Len(tickets)
          /\ \A i \in 1..Len(tickets) :
                 IF /\ tickets[i].status = "resolved"
                    /\ tickets[i].resolved_at # <<>>
                    /\ tickets[i].resolved_at[1] + 1440 < now
                 THEN /\ tickets'[i].status = "closed"
                      /\ tickets'[i].resolved_at = tickets[i].resolved_at
                      /\ TicketAuditIn(status_updates', i) =
                            Append(TicketAuditIn(status_updates, i),
                                   [entity_type |-> "ticket", entity_id |-> i,
                                    old_status |-> "resolved", new_status |-> "closed"])
                 ELSE /\ tickets'[i] = tickets[i]
                      /\ TicketAuditIn(status_updates', i) =
                            TicketAuditIn(status_updates, i)]_vars

\* a run closed a ticket resolved more than 24 hours ago and left another
\* ticket, which is open, as it was
C12_Witness ==
    /\ lastOp.op = "autoCloseResolvedTickets"
    /\ lastOp.completed
    /\ lastOp.ids = <<1>>
    /\ Len(tickets) = 2
    /\ tickets[1].status = "closed"
    /\ tickets[1].updated_at = now
    /\ tickets[1].resolved_at # <<>>
    /\ tickets[1].resolved_at[1] + 1440 < now
    /\ tickets[2].status = "open"
    /\ status_updates[Len(status_updates)] =
          [entity_type |-> "ticket", entity_id |-> 1,
           old_status |-> "resolved", new_status |-> "closed"]

\* ---- properties of overlapping job runs (SpecJobs) ----

\* the audit rows of one entity in a given log
EntityAuditIn(audit, type, id) ==
    SelectSeq(audit, LAMBDA r : r.entity_type = type /\ r.entity_id = id)

\* C13: whatever the interleaving of two runs of the auto-close job or of the
\* transaction-sync job, every status change of a ticket or a transaction has
\* exactly one audit row: in the audit rows of an entity each row starts from
\* the status the row before it ended in, and the last one ends in the stored
\* status.
C13_OverlappingRunsAuditOnce ==
    /\ \A i \in 1..Len(tickets) :
          LET rows == EntityAuditIn(status_updates, "ticket", i)
          IN  \A k \in 2..Len(rows) : rows[k].old_status = rows[k - 1].new_status
    /\ \A i \in 1..Len(transactions) :
          LET rows == EntityAuditIn(status_updates, "transaction", i)
          IN  \A k \in 2..Len(rows) : rows[k].old_status = rows[k - 1].new_status

\* ---- properties of the webhooks (SpecWebhook) ----

\* C14: with a secret configured, a transaction-webhook request whose signature
\* header is absent or differs from sha256=<HMAC of the bytes of the body> is
\* answered 401 and writes no transaction row and no audit row, sends no e-mail
\* and publishes no event; one whose header equals it is not answered 401.
C14_SignatureOverBodyRequired ==
    [][lastOp'.op = "handleTransactionWebhook" =>
       \A secret \in Secrets, raw \in RawBodies, fetched \in CallerStatusInputs,
          fault \in {"none", "fetch"}, written \in BOOLEAN :
          \A signature \in SignatureHeaders(raw) :
              handleTransactionWebhook(secret, raw, signature, fetched, fault, written) =>
                  IF signature = <<"sha256=", <<"hmac", secret, raw>>>>
                  THEN lastOp'.code # 401
                  ELSE /\ lastOp'.code = 401
                       /\ UNCHANGED <<transactions, status_updates>>
                       /\ outbox' = <<>>
                       /\ emitted' = <<>>]_vars

\* the webhook handlers
WebhookOps ==
    {"handleTransactionWebhook", "handleEmailWebhook", "handleWhatsAppWebhook",
     "handleCRMWebhook"}

\* the rows a step appended to webhook_logs
NewWebhookLogs == SubSeq(webhook_logs', Len(webhook_logs) + 1, Len(webhook_logs'))

\* C15: every webhook call whose inserts into webhook_logs succeed records the
\* call with status pending first and, when it answers, the latest record of
\* the call has status processed or failed, whatever the outcome.
C15_WebhookLoggedThenClassified ==
    [][(lastOp'.op \in WebhookOps /\ lastOp'.written /\ now' = now)
       => /\ Len(NewWebhookLogs) >= 1
          /\ NewWebhookLogs[1].status = "pending"
          /\ NewWebhookLogs[Len(NewWebhookLogs)].status \in {"processed", "failed"}]_vars

\* C17: an e-mail webhook call that has from and subject and whose to address
\* matches no support address stores no ticket and no audit row, sends no
\* e-mail, publishes no event, answers 200 and, its inserts into webhook_logs
\* succeeding, leaves a record of the call with status ignored.
C17_IgnoredEmailLogged ==
    [][(/\ lastOp'.op = "handleEmailWebhook"
        /\ lastOp'.code = 200
        /\ ~lastOp'.support
        /\ now' = now)
       => /\ UNCHANGED <<tickets, status_updates>>
          /\ outbox' = <<>>
          /\ emitted' = <<>>
          /\ lastOp'.written =>
                /\ Len(NewWebhookLogs) >= 1
                /\ \E k \in 1..Len(NewWebhookLogs) : NewWebhookLogs[k].status = "ignored"]_vars

\* ---- properties of the WhatsApp verification (SpecWhatsApp) ----

\* C16: the verification answers 200 with the challenge exactly when mode is
\* subscribe, a verify token is configured and the supplied token equals it;
\* in every other case it answers 403.
C16_ChallengeOnlyForConfiguredToken ==
    lastOp.op = "verifyWhatsAppWebhook" =>
        IF /\ lastOp.mode = "subscribe"
           /\ lastOp.verifyToken # NULL
           /\ lastOp.token = lastOp.verifyToken
        THEN lastOp.code = 200 /\ lastOp.sent = lastOp.challenge
        ELSE lastOp.code = 403

\* ---- properties of the notifications (SpecNotify) ----

\* C18: a Create, an Update or a ManualStatusUpdate whose notification fails
\* (the delivery or the insert into the notification log) answers 201 / 200,
\* and the ticket or transaction row and the audit row it wrote are stored.
C18_NotificationFailureKeepsWrite ==
    [][(/\ lastOp'.op \in {"createTicket", "updateTicket", "manualStatusUpdate"}
        /\ lastOp'.delivery = "failed"
        /\ now' = now)
       => LET last == status_updates'[Len(status_updates')]
          IN  /\ Len(status_updates') = Len(status_updates) + 1
              /\ lastOp'.op = "createTicket" =>
                    /\ lastOp'.code = 201
                    /\ Len(tickets') = Len(tickets) + 1
                    /\ lastOp'.id = Len(tickets')
                    /\ tickets'[lastOp'.id].status = "open"
                    /\ last = [entity_type |-> "ticket", entity_id |-> lastOp'.id,
                               old_status |-> NULL, new_status |-> "open"]
              /\ lastOp'.op = "updateTicket" =>
                    /\ lastOp'.code = 200
                    /\ tickets'[lastOp'.id].updated_at = now
                    /\ last = [entity_type |-> "ticket", entity_id |-> lastOp'.id,
                               old_status |-> tickets[lastOp'.id].status,
                               new_status |-> tickets'[lastOp'.id].status]
              /\ lastOp'.op = "manualStatusUpdate" =>
                    LET i == FindTransaction(transactions, lastOp'.id)
                    IN  /\ lastOp'.code = 200
                        /\ transactions'[i].updated_at = now
                        /\ last = [entity_type |-> "transaction",
                                   entity_id |-> transactions[i].id,
                                   old_status |-> transactions[i].status,
                                   new_status |-> transactions'[i].status]]_vars

\* a Create whose acknowledgment could not be delivered answered 201 after a
\* ManualStatusUpdate had written the first audit row
C18_Witness ==
    /\ lastOp.op = "createTicket"
    /\ lastOp.delivery = "failed"
    /\ lastOp.code = 201
    /\ Len(tickets) = lastOp.id
    /\ outbox = <<[type |-> "acknowledgment", ref |-> lastOp.id]>>
    /\ Len(status_updates) = 2
    /\ status_updates[1].entity_type = "transaction"

\* ---- properties of the manual trigger (SpecTrigger) ----

\* C19: the manual trigger called with autoCloseTickets has closed every ticket
\* resolved more than 24 hours ago when it answers 200; called with an unknown
\* name it answers 400 and changes nothing.
C19_TriggerRunsJob ==
    [][(lastOp'.op = "triggerCronJob" /\ now' = now)
       => IF lastOp'.jobName \in ValidJobs
          THEN /\ lastOp'.code = 200
               /\ lastOp'.jobName = "autoCloseTickets" =>
                     \A i \in 1..Len(tickets) :
                         (/\ tickets[i].status = "resolved"
                          /\ tickets[i].resolved_at # <<>>
                          /\ tickets[i].resolved_at[1] + 1440 < now)
                             => tickets'[i].status = "closed"
          ELSE /\ lastOp'.code = 400
               /\ UNCHANGED <<tickets, transactions, status_updates>>]_vars

\* ---- properties of the audit log (SpecAudit) ----

\* C20: every stored ticket and every stored transaction has at least one audit
\* row, and its status is the new_status of its most recent audit row.
C20_AuditFollowsStatus ==
    /\ \A i \in 1..Len(tickets) :
          LET rows == EntityAuditIn(status_updates, "ticket", tickets[i].id)
          IN  /\ Len(rows) >= 1
              /\ rows[Len(rows)].new_status = tickets[i].status
    /\ \A i \in 1..Len(transactions) :
          LET rows == EntityAuditIn(status_updates, "transaction", transactions[i].id)
          IN  /\ Len(rows) >= 1
              /\ rows[Len(rows)].new_status = transactions[i].status

\* ---- properties of the ticket life cycle (SpecAudit) ----

\* C21: no step changes the status of a ticket whose status is closed.
C21_ClosedIsTerminal ==
    [][\A i \in 1..Len(tickets) :
          tickets[i].status = "closed" => tickets'[i].status = "closed"]_vars

\* ---- properties of the handlers' writes (SpecNotify) ----

\* C22: a Create, an Update or a ManualStatusUpdate that answers 500 leaves
\* tickets, transactions and status_updates as they were: the row write and the
\* audit insert are stored together or not at all.
C22_RowAndAuditTogether ==
    [][(/\ lastOp'.op \in {"createTicket", "updateTicket", "manualStatusUpdate"}
        /\ lastOp'.code = 500
        /\ now' = now)
       => UNCHANGED <<tickets, transactions, status_updates>>]_vars

\* ---- properties of ticket List (SpecList) ----

\* the tickets that satisfy every supplied filter
Matching(filters) ==
    {i \in 1..Len(tickets) :
        /\ filters.status # NULL => tickets[i].status = filters.status
        /\ filters.date_from # <<>> => tickets[i].created_at >= filters.date_from[1]
        /\ filters.search # <<>> =>
              \E k \in 0..(Len(tickets[i].ticket_number) - 1 - Len(filters.search)) :
                  SubSeq(Tail(tickets[i].ticket_number), k + 1, k + Len(filters.search))
                      = filters.search}

\* C23: whatever filters are supplied, search included, List answers 200, its
\* total is the number of tickets satisfying all of them and its rows are the
\* requested page of those tickets, newest first.
C23_ListAppliesAllFilters ==
    lastOp.op = "getTickets" =>
        LET offset == (lastOp.page - 1) * lastOp.limit
        IN  /\ lastOp.code = 200
            /\ lastOp.total = Cardinality(Matching(lastOp.filters))
            /\ \E q \in NewestFirst(Matching(lastOp.filters)) :
                  lastOp.rows =
                      IF offset >= Len(q) THEN <<>>
                      ELSE SubSeq(q, offset + 1,
                                  IF offset + lastOp.limit < Len(q)
                                  THEN offset + lastOp.limit ELSE Len(q))

\* ---- properties of the e-mail intake (SpecAudit) ----

\* C24: a ProcessIncomingEmail that stores a ticket has the effects of Create:
\* the ticket has status open, status_updates gains the row (ticket, NULL ->
\* open), the acknowledgment is sent and ticket_created is published.
C24_IncomingEmailAsCreate ==
    [][(/\ lastOp'.op = "processIncomingEmail"
        /\ lastOp'.code = 200
        /\ now' = now)
       => /\ Len(tickets') = Len(tickets) + 1
          /\ lastOp'.id = Len(tickets')
          /\ tickets'[lastOp'.id].status = "open"
          /\ status_updates' =
                Append(status_updates,
                       [entity_type |-> "ticket", entity_id |-> lastOp'.id,
                        old_status |-> NULL, new_status |-> "open"])
          /\ outbox' = <<[type |-> "acknowledgment", ref |-> lastOp'.id]>>
          /\ emitted' = <<[event |-> "ticket_created", id |-> lastOp'.id]>>]_vars

\* ---- properties of interleaved ticket handlers (SpecRace) ----

\* C25: of two Updates of one ticket that both read before either writes, each
\* UPDATE leaves the row with the status of its own request, so the row ends
\* with the status of the later write, and each audit row carries as old_status
\* the status that was stored when its own Update read the ticket.
C25_InterleavedUpdates ==
    [][\A r \in RunIds :
          /\ (runs[r].job = "idle" /\ runs'[r].job = "updateTicket")
                => runs'[r].read = tickets[runs'[r].ids[1]].status
          /\ (runs[r].job = "updateTicket" /\ runs[r].pc = "update" /\ runs'[r].pc # "update")
                => /\ tickets'[runs[r].ids[1]].status = runs[r].fetched
                   /\ status_updates' = status_updates
          /\ (runs[r].job = "updateTicket" /\ runs[r].pc = "audit" /\ runs'[r].pc # "audit")
                => /\ status_updates' =
                         Append(status_updates,
                                [entity_type |-> "ticket", entity_id |-> runs[r].ids[1],
                                 old_status |-> runs[r].read, new_status |-> runs[r].fetched])
                   /\ tickets' = tickets]_vars

\* two Updates read the open ticket 1 before either wrote, both wrote resolved
\* and each logged open -> resolved: the row holds resolved and the second of
\* the two rows does not start from the status the first ended in
C25_Witness ==
    /\ AllIdle
    /\ Len(tickets) >= 1
    /\ tickets[1].status = "resolved"
    /\ EntityAuditIn(status_updates, "ticket", 1) =
          <<[entity_type |-> "ticket", entity_id |-> 1,
             old_status |-> NULL, new_status |-> "open"],
            [entity_type |-> "ticket", entity_id |-> 1,
             old_status |-> "open", new_status |-> "resolved"],
            [entity_type |-> "ticket", entity_id |-> 1,
             old_status |-> "open", new_status |-> "resolved"]>>

\* C26: in every state reached by interleaving Create, Update, Close and the
\* auto-close job, every ticket whose status is resolved has resolved_at set.
C26_ResolvedHasResolvedAt ==
    \A i \in 1..Len(tickets) :
        tickets[i].status = "resolved" => tickets[i].resolved_at # <<>>

\* ticket 1, resolved at time 0, was read as resolved by two Updates at a later
\* time; one reopened it and logged that, then the other wrote resolved without
\* stamping resolved_at: the ticket is resolved and keeps the old resolved_at
C26_Witness ==
    /\ AllIdle
    /\ Len(tickets) >= 1
    /\ tickets[1].status = "resolved"
    /\ tickets[1].resolved_at = <<0>>
    /\ tickets[1].updated_at > 0
    /\ LET rows == EntityAuditIn(status_updates, "ticket", 1)
       IN  /\ Len(rows) >= 1
           /\ rows[Len(rows)].old_status = "resolved"
           /\ rows[Len(rows)].new_status = "open"

\* C29: the closing UPDATE of the auto-close job changes a ticket only if its
\* status is resolved at that moment; a ticket reopened by an Update since the
\* job selected it keeps its status.
C29_AutoCloseOnlyResolved ==
    [][\A r \in RunIds :
          (/\ runs[r].job = "autoClose"
           /\ runs[r].pc = "update"
           /\ runs'[r].pc = "audit")
             => LET id == runs[r].ids[runs[r].k]
                IN  tickets[id].status # "resolved" => tickets'[id].status = tickets[id].status]_vars

\* ---- properties of the job on its timer (SpecTimer) ----

\* the stored transaction tid is in a non-terminal status and stale
StalePending(tid) ==
    \E i \in 1..Len(transactions) :
        /\ transactions[i].transaction_id = tid
        /\ transactions[i].status \in {"initiated", "pending", "processing"}
        /\ transactions[i].updated_at + 5 < now

\* the last run of the job passed tid to SyncStatus
PassedToSync(tid) ==
    /\ lastOp.op = "updateTransactionStatuses"
    /\ \E k \in 1..Len(lastOp.ids) : lastOp.ids[k] = tid

\* C27: with the job run again and again, a transaction that is non-terminal
\* and stale is eventually passed to SyncStatus, or stops being so, even when
\* the stale transactions outnumber the LIMIT of the query.
C27_StaleEventuallySynced ==
    \A tid \in TxnIds : StalePending(tid) ~> (PassedToSync(tid) \/ ~StalePending(tid))

\* ---- properties of the sync job against manual updates (SpecSyncRace) ----

\* C28: the UPDATE of a sync run leaves a transaction whose stored status is
\* terminal at that moment with that status; a terminal status set by a
\* ManualStatusUpdate after the run read the row is not overwritten.
C28_SyncKeepsTerminal ==
    [][\A r \in RunIds :
          (/\ runs[r].job = "sync"
           /\ runs[r].pc = "update"
           /\ runs'[r].pc = "audit")
             => LET i == FindTransaction(transactions, runs[r].ids[runs[r].k])
                IN  transactions[i].status \in {"success", "failed", "refunded", "cancelled"}
                        => transactions'[i].status = transactions[i].status]_vars

\* ---- properties of SyncStatus's insert branch (SpecUpsert) ----

\* C30: no two transaction rows share a transaction_id; the INSERT of a
\* SyncStatus that found no row does not fail and leaves exactly one row of
\* its transaction_id, holding the status it fetched, also when another call
\* has stored that transaction_id since.
C30_OneRowPerTransactionId ==
    /\ \A i, j \in 1..Len(transactions) :
          i # j => transactions[i].transaction_id # transactions[j].transaction_id
    /\ lastOp.op = "syncUpsert" =>
          /\ ~lastOp.failed
          /\ Cardinality({i \in 1..Len(transactions) :
                             transactions[i].transaction_id = lastOp.id}) = 1
          /\ \A i \in 1..Len(transactions) :
                transactions[i].transaction_id = lastOp.id
                    => transactions[i].status = lastOp.status

\* two calls for T1 both found no row; the first stored it as pending, the
\* second, whose INSERT met the stored row, left the one row with success
C30_Witness ==
    /\ lastOp.op = "syncUpsert"
    /\ lastOp.conflict
    /\ lastOp.id = "T1"
    /\ lastOp.status = "success"
    /\ Len(transactions) = 1
    /\ transactions[1].transaction_id = "T1"
    /\ transactions[1].status = "success"
    /\ transactions[1].completed_at # <<>>

====
